---- MODULE Spec2Model ----
(***************************************************************************)
(* A model of the document-store services of fcc-go: the short-URL        *)
(* service (shorturldao.go) and the exercise tracker (exercisedao.go).    *)
(* The two MongoDB collections are the state; each function of the two    *)
(* files that a handler calls is one action, and Respond is the handler   *)
(* writing the payload and returning.  Strings are TLA+ strings, and the  *)
(* conversions the code performs (strconv.FormatInt, strconv.Atoi,        *)
(* time.Parse, ObjectID <-> string) are computed character by character.  *)
(* A store call fails when the action's fault input names it.             *)
(***************************************************************************)
EXTENDS Integers, Sequences, FiniteSets, TLC

VARIABLES
    urls,       \* the urls collection, in insertion order
    users,      \* the exercise_users collection, in insertion order
    nextOid,    \* the next ObjectID the store hands out
    firstCode,  \* history: the short code the first mint of each URL returned
    firstUser,  \* history: the payload the first createExerciseUser of each name returned
    resolved,   \* history: per original URL, the resolutions that returned it
    mint,       \* the concurrent mint calls: each one's position and locals
    call,       \* the call that ran last: function, arguments, injected store fault
    ret         \* what that call returned to its caller

vars == <<urls, users, nextOid, firstCode, firstUser, resolved, mint, call, ret>>

(***************************************************************************)
(* Bounds of the model.                                                    *)
(***************************************************************************)
Preloaded == 34     \* records already minted in the larger initial state
MaxVisits == 2      \* cap on the resolutions that return one record
MaxLog    == 2      \* cap on the number of log entries in exercise_users

(***************************************************************************)
(* Small helpers on sequences and strings.                                 *)
(***************************************************************************)
Char(s, i) == SubSeq(s, i, i)

Digits36 == "0123456789abcdefghijklmnopqrstuvwxyz"

\* The value of each digit character.
DigitTable ==
    [c \in {Char(Digits36, v) : v \in 1..Len(Digits36)} |->
        (CHOOSE v \in 1..Len(Digits36) : Char(Digits36, v) = c) - 1]

\* The value of a one-character string among the first `base` digits, or -1.
DigitValue(c, base) ==
    IF c \in DOMAIN DigitTable /\ DigitTable[c] < base THEN DigitTable[c] ELSE -1

\* Whether s is one or more digits of the base.
AllDigits(s, base) ==
    /\ Len(s) > 0
    /\ \A i \in 1..Len(s) : DigitValue(Char(s, i), base) >= 0

\* The number that the digits of s spell in the base.
RECURSIVE DigitsValue(_, _)
DigitsValue(s, base) ==
    IF Len(s) = 0 THEN 0
    ELSE DigitsValue(SubSeq(s, 1, Len(s) - 1), base) * base
         + DigitValue(Char(s, Len(s)), base)

(***************************************************************************)
(* shorturldao.go                                                          *)
(***************************************************************************)
Radix == 36

\* A formatter that keeps only the least significant digit.
FormatIntLastDigit(n, base) == Char(Digits36, (n % base) + 1)

\* strconv.FormatInt(n, base) for n >= 0: most significant digit first.
RECURSIVE FormatInt(_, _)
FormatInt(n, base) ==
    IF n < base THEN Char(Digits36, n + 1)
    ELSE FormatInt(n \div base, base) \o Char(Digits36, (n % base) + 1)

\* Collection.CountDocuments(ctx, bson.D{})
CountDocuments(coll) == Len(coll)

\* A lookup that falls back on the first document when none matches.
FindIndexOrFirst(coll, field, value) ==
    LET hits == {i \in DOMAIN coll : coll[i][field] = value}
    IN IF hits = {} THEN (IF coll = <<>> THEN 0 ELSE 1)
       ELSE CHOOSE i \in hits : \A j \in hits : i <= j

\* The index of the first document of coll whose field equals value, 0 if none.
FindIndex(coll, field, value) ==
    LET hits == {i \in DOMAIN coll : coll[i][field] = value}
    IN IF hits = {} THEN 0 ELSE CHOOSE i \in hits : \A j \in hits : i <= j

ErrorMessage(content) == [error |-> content]

urlReceipt(originalURL, shortURL) ==
    [original_url |-> originalURL, short_url |-> shortURL]

\* The short code a mint computes from the count it has read.
ShortURLFor(dbSize) == FormatInt(dbSize, Radix)

\* A store whose unique index covers short_url as well as original_url.
InsertURLOutcomeUniqueCode(coll, newDoc, fault) ==
    IF fault = "insert" THEN "err"
    ELSE IF \/ FindIndex(coll, "original_url", newDoc.original_url) # 0
            \/ FindIndex(coll, "short_url", newDoc.short_url) # 0 THEN "dup"
    ELSE "ok"

\* A store with no unique index at all.
InsertURLOutcomeNoIndex(coll, newDoc, fault) ==
    IF fault = "insert" THEN "err" ELSE "ok"

\* The outcome of Collection.InsertOne on urls, whose unique index is on
\* original_url: "err" (any other failure), "dup", or "ok".
InsertURLOutcome(coll, newDoc, fault) ==
    IF fault = "insert" THEN "err"
    ELSE IF FindIndex(coll, "original_url", newDoc.original_url) # 0 THEN "dup"
    ELSE "ok"

\* A duplicate path that answers with the code it has just computed.
DuplicateReceiptFresh(coll, newURL, shortURL, fault) ==
    urlReceipt(newURL, shortURL)

\* Lines 73-86: after a duplicate-key error, the receipt decoded from the
\* stored record; a failed FindOne leaves oldDoc at its zero value.
DuplicateReceipt(coll, newURL, shortURL, fault) ==
    LET i == FindIndex(coll, "original_url", newURL)
    IN IF fault = "find" \/ i = 0 THEN urlReceipt("", "")
       ELSE urlReceipt(coll[i].original_url, coll[i].short_url)

\* No call is running: the last handler has written its payload and returned.
NoCall == [op |-> "none", arg |-> "", fault |-> "none", path |-> ""]

NoReturn == [op |-> "none", body |-> ""]

\* The handler writes what the call returned and ends (w.Write).
Respond ==
    /\ call # NoCall
    /\ call' = NoCall
    /\ ret' = NoReturn
    /\ UNCHANGED <<urls, users, nextOid, firstCode, firstUser, resolved, mint>>

URLFaults == {"none", "count", "insert", "find"}

URLs == {"a.com", "b.org", "c.net"}

PreURL(i) == "p" \o FormatInt(i, Radix)

AllURLs == URLs \cup {PreURL(i) : i \in 0..Preloaded}

NoCode == "-"

\* The collection after n sequential mints of PreURL(0) .. PreURL(n-1).
PreloadedURLs(n) ==
    [i \in 1..n |-> [original_url |-> PreURL(i - 1),
                     short_url |-> ShortURLFor(i - 1),
                     times_visited |-> 0]]

insertURL(newURL, fault) ==
    LET dbSize   == CountDocuments(urls)
        shortURL == ShortURLFor(dbSize)
        newDoc   == [original_url |-> newURL, short_url |-> shortURL,
                     times_visited |-> 0]
        outcome  == InsertURLOutcome(urls, newDoc, fault)
    IN IF fault = "count"
       THEN /\ ret' = [op |-> "insertURL",
                       body |-> ErrorMessage("failed when counting database")]
            /\ call' = [op |-> "insertURL", arg |-> newURL, fault |-> fault,
                        path |-> "count failed"]
            /\ UNCHANGED <<urls, firstCode>>
       ELSE IF outcome = "dup"
       THEN /\ ret' = [op |-> "insertURL",
                       body |-> DuplicateReceipt(urls, newURL, shortURL, fault)]
            /\ call' = [op |-> "insertURL", arg |-> newURL, fault |-> fault,
                        path |-> "duplicate"]
            /\ UNCHANGED <<urls, firstCode>>
       ELSE IF outcome = "err"
       THEN /\ ret' = [op |-> "insertURL",
                       body |-> ErrorMessage("failed when inserting into database")]
            /\ call' = [op |-> "insertURL", arg |-> newURL, fault |-> fault,
                        path |-> "insert failed"]
            /\ UNCHANGED <<urls, firstCode>>
       ELSE /\ urls' = Append(urls, newDoc)
            /\ ret' = [op |-> "insertURL", body |-> urlReceipt(newURL, shortURL)]
            /\ call' = [op |-> "insertURL", arg |-> newURL, fault |-> fault,
                        path |-> "inserted"]
            /\ firstCode' = [firstCode EXCEPT ![newURL] = shortURL]

MintURL ==
    /\ call = NoCall
    /\ \E newURL \in URLs, fault \in URLFaults : insertURL(newURL, fault)
    /\ UNCHANGED <<users, nextOid, firstUser, resolved, mint>>

\* A counter that moves on the first record, whichever record was found.
IncrementVisitsFirst(coll, i, fault) ==
    IF fault = "update" THEN coll
    ELSE [coll EXCEPT ![1].times_visited = @ + 1]

\* Lines 134-138: UpdateOne {_id: foundDoc.ID} {$inc: {times_visited: 1}}.
IncrementVisits(coll, i, fault) ==
    IF fault = "update" THEN coll
    ELSE [coll EXCEPT ![i].times_visited = @ + 1]

\* A lookup that filters on the wrong field.
FindByOriginalURL(coll, sURL) == FindIndex(coll, "original_url", sURL)

\* Line 126: FindOne {short_url: sURL}.
FindByShortURL(coll, sURL) == FindIndex(coll, "short_url", sURL)

\* A not-found path that still counts a visit, on the first record.
NotFoundStoreBumpFirst(coll) ==
    IF coll = <<>> THEN coll ELSE [coll EXCEPT ![1].times_visited = @ + 1]

\* Lines 127-130: on no match, or a failed FindOne, the store is not written.
NotFoundStore(coll) == coll

ResolveFaults == {"none", "find", "update"}

\* No resolution has returned any URL yet.
NoneResolved == [u \in AllURLs |-> [returned |-> 0, updated |-> 0]]

\* The goroutines that serve mint requests at the same time.
Procs == {1, 2}

\* A goroutine that is not inside insertURL.
IdleMint == [pc |-> "idle", url |-> "", dbSize |-> 0, fault |-> "none",
             path |-> "", body |-> ""]

ShortInputs == {"0", "z", "10", "zz", ""}

getOriginalURL(sURL, fault) ==
    LET i == FindByShortURL(urls, sURL)
    IN IF fault = "find" \/ i = 0
       THEN /\ urls' = NotFoundStore(urls)
            /\ ret' = [op |-> "getOriginalURL", body |-> ""]
            /\ call' = [op |-> "getOriginalURL", arg |-> sURL, fault |-> fault,
                        path |-> "not found"]
            /\ UNCHANGED resolved
       ELSE /\ resolved[urls[i].original_url].returned < MaxVisits
            /\ urls' = IncrementVisits(urls, i, fault)
            /\ resolved' = [resolved EXCEPT
                  ![urls[i].original_url] =
                      [returned |-> @.returned + 1,
                       updated  |-> IF fault = "update" THEN @.updated
                                    ELSE @.updated + 1]]
            /\ ret' = [op |-> "getOriginalURL", body |-> urls[i].original_url]
            /\ call' = [op |-> "getOriginalURL", arg |-> sURL, fault |-> fault,
                        path |-> "found"]

ResolveURL ==
    /\ call = NoCall
    /\ \E sURL \in ShortInputs, fault \in ResolveFaults : getOriginalURL(sURL, fault)
    /\ UNCHANGED <<users, nextOid, firstCode, firstUser, mint>>

InitURL ==
    /\ \E n \in {0, Preloaded} :
          /\ urls = PreloadedURLs(n)
          /\ firstCode = [u \in AllURLs |->
                            IF \E i \in 0..(n - 1) : u = PreURL(i)
                            THEN ShortURLFor(CHOOSE i \in 0..(n - 1) : u = PreURL(i))
                            ELSE NoCode]
    /\ users = <<>>
    /\ nextOid = 1
    /\ firstUser = [n \in {} |-> NoReturn]
    /\ resolved = NoneResolved
    /\ mint = [p \in Procs |-> IdleMint]
    /\ call = NoCall
    /\ ret = NoReturn

NextURL == MintURL \/ ResolveURL \/ Respond

\* The short-URL service, its calls running one at a time.
SpecURL == InitURL /\ [][NextURL]_vars

(***************************************************************************)
(* Claims about the short-URL service, checked under SpecURL.              *)
(***************************************************************************)

\* C1: a mint of a URL that an earlier mint already returned a code for, the
\* store answering every call, returns that first code again with the same
\* original URL, and adds no record to urls.
MintIsIdempotent ==
    [][(/\ call'.op = "insertURL"
        /\ call'.fault = "none"
        /\ firstCode[call'.arg] # NoCode)
       => (/\ ret'.body = urlReceipt(call'.arg, firstCode[call'.arg])
           /\ urls' = urls
           /\ Cardinality({i \in DOMAIN urls' :
                              urls'[i].original_url = call'.arg}) = 1)]_vars

MintIsIdempotentWitness ==
    /\ call.op = "insertURL"
    /\ call.path = "duplicate"
    /\ call.fault = "none"
    /\ call.arg \in URLs
    /\ ret.body.short_url = firstCode[call.arg]
    /\ Len(urls) > FindIndex(urls, "original_url", call.arg)

\* C2: resolving the short code that a mint of u returned returns u, whatever
\* mints and resolutions ran before, provided the lookup itself does not fail.
RoundTrip ==
    [][(/\ call'.op = "getOriginalURL"
        /\ call'.fault # "find")
       => \A u \in AllURLs :
             firstCode[u] = call'.arg => ret'.body = u]_vars

RoundTripWitness ==
    /\ call.op = "getOriginalURL"
    /\ call.path = "found"
    /\ ret.body \in URLs
    /\ firstCode[ret.body] = call.arg
    /\ Len(call.arg) > 1
    /\ \E i \in DOMAIN urls : urls[i].times_visited > 1

\* C3: a mint that inserts a new record returns a short code that no record
\* inserted before it carries.
NewCodeIsFresh ==
    [][(/\ call'.op = "insertURL"
        /\ call'.path = "inserted")
       => (/\ Len(urls') = Len(urls) + 1
           /\ urls'[Len(urls')].short_url = ret'.body.short_url
           /\ \A i \in DOMAIN urls :
                 urls[i].short_url # ret'.body.short_url)]_vars

NewCodeIsFreshWitness ==
    /\ call.op = "insertURL"
    /\ call.path = "inserted"
    /\ Len(urls) > Radix
    /\ Len(ret.body.short_url) > 1

\* C4: resolving a short code that no record carries returns the empty string
\* and changes no record: every times_visited stays as it was.
UnknownCodeChangesNothing ==
    [][(/\ call'.op = "getOriginalURL"
        /\ \A i \in DOMAIN urls : urls[i].short_url # call'.arg)
       => (/\ ret'.body = ""
           /\ Len(urls') = Len(urls)
           /\ \A i \in DOMAIN urls :
                 urls'[i].times_visited = urls[i].times_visited)]_vars

UnknownCodeChangesNothingWitness ==
    /\ call.op = "getOriginalURL"
    /\ call.fault = "none"
    /\ call.path = "not found"
    /\ ret.body = ""
    /\ \E i \in DOMAIN urls : urls[i].times_visited > 0

\* The store call that the running mint's fault names has failed: the count,
\* the insert (for a reason other than the unique index), or the lookup of
\* the stored record after the unique index refused the insert.
StoreCallFailed ==
    /\ call.op = "insertURL"
    /\ \/ call.fault \in {"count", "insert"}
       \/ call.fault = "find" /\ call.path = "duplicate"

\* C13: a mint in which a store call fails, other than by the uniqueness
\* violation on insert, returns an {error} payload and never a receipt.
StoreFailureIsErrorPayload ==
    StoreCallFailed =>
        /\ DOMAIN ret.body = {"error"}
        /\ "short_url" \notin DOMAIN ret.body

\* C15 as stated: each record's times_visited equals the number of resolve
\* calls so far that returned that record's original_url.
VisitsCountResolutions ==
    \A i \in DOMAIN urls :
        urls[i].times_visited = resolved[urls[i].original_url].returned

\* C15, amended: each record's times_visited equals the number of resolve
\* calls so far that returned its original_url and whose increment the store
\* applied; a resolution whose increment fails still returns the URL, so the
\* counter never exceeds the number of resolutions that returned the URL.
VisitsCountAppliedIncrements ==
    \A i \in DOMAIN urls :
        /\ urls[i].times_visited = resolved[urls[i].original_url].updated
        /\ urls[i].times_visited <= resolved[urls[i].original_url].returned

VisitsCountAppliedIncrementsWitness ==
    /\ call.op = "getOriginalURL"
    /\ call.path = "found"
    /\ \E i, j \in DOMAIN urls :
          /\ i # j
          /\ urls[i].original_url = ret.body
          /\ urls[i].times_visited = 1
          /\ resolved[ret.body].returned = 2
          /\ urls[j].times_visited = 0
          /\ j < i

(***************************************************************************)
(* shorturldao.go, with mint calls running at the same time: every store   *)
(* operation of insertURL is one step of the goroutine that serves it.     *)
(***************************************************************************)

\* The goroutine has returned: what it answered and on which path.
DoneMint(m, path, body) == [m EXCEPT !.pc = "done", !.path = path, !.body = body]

\* Lines 45-58: the call starts and reads the number of records.
MintCount(p) ==
    /\ mint[p].pc = "idle"
    /\ \E newURL \in URLs, fault \in URLFaults :
          LET m == [IdleMint EXCEPT !.url = newURL, !.fault = fault]
          IN mint' = [mint EXCEPT ![p] =
                IF fault = "count"
                THEN DoneMint(m, "count failed",
                              ErrorMessage("failed when counting database"))
                ELSE [m EXCEPT !.pc = "counted",
                               !.dbSize = CountDocuments(urls)]]
    /\ UNCHANGED urls

\* Lines 59-72 and 87-115: the code is computed from the count read earlier
\* and the record is inserted.
MintInsert(p) ==
    /\ mint[p].pc = "counted"
    /\ LET m        == mint[p]
           shortURL == ShortURLFor(m.dbSize)
           newDoc   == [original_url |-> m.url, short_url |-> shortURL,
                        times_visited |-> 0]
           outcome  == InsertURLOutcome(urls, newDoc, m.fault)
       IN IF outcome = "dup"
          THEN /\ mint' = [mint EXCEPT ![p].pc = "duplicate"]
               /\ UNCHANGED urls
          ELSE IF outcome = "err"
          THEN /\ mint' = [mint EXCEPT ![p] =
                     DoneMint(m, "insert failed",
                              ErrorMessage("failed when inserting into database"))]
               /\ UNCHANGED urls
          ELSE /\ urls' = Append(urls, newDoc)
               /\ mint' = [mint EXCEPT ![p] =
                     DoneMint(m, "inserted", urlReceipt(m.url, shortURL))]

\* Lines 73-86: after the duplicate-key error, the stored record is read.
MintLookup(p) ==
    /\ mint[p].pc = "duplicate"
    /\ mint' = [mint EXCEPT ![p] =
          DoneMint(@, "duplicate",
                   DuplicateReceipt(urls, @.url, ShortURLFor(@.dbSize), @.fault))]
    /\ UNCHANGED urls

\* The handler writes the payload and the goroutine ends.
MintReturn(p) ==
    /\ mint[p].pc = "done"
    /\ mint' = [mint EXCEPT ![p] = IdleMint]
    /\ UNCHANGED urls

InitMint ==
    /\ urls = <<>>
    /\ firstCode = [u \in AllURLs |-> NoCode]
    /\ users = <<>>
    /\ nextOid = 1
    /\ firstUser = [n \in {} |-> NoReturn]
    /\ resolved = NoneResolved
    /\ mint = [p \in Procs |-> IdleMint]
    /\ call = NoCall
    /\ ret = NoReturn

NextMint ==
    /\ \E p \in Procs :
          MintCount(p) \/ MintInsert(p) \/ MintLookup(p) \/ MintReturn(p)
    /\ UNCHANGED <<users, nextOid, firstCode, firstUser, resolved, call, ret>>

\* The short-URL service with its mint calls interleaved.
SpecMint == InitMint /\ [][NextMint]_vars

(***************************************************************************)
(* Claims about concurrent mints, checked under SpecMint.                  *)
(***************************************************************************)

\* Two records of different original URLs carry this short code.
Collision(coll, code) ==
    \E i, j \in DOMAIN coll :
        /\ coll[i].short_url = code
        /\ coll[j].short_url = code
        /\ coll[i].original_url # coll[j].original_url

\* C11: when two mint calls for different original URLs have both read the
\* record count before either inserts, the second insert succeeds as well:
\* afterwards urls holds two records with the same short_url and different
\* original_url, and both calls have returned a receipt with that code.
SameCountMintsCollide ==
    [][\A p, q \in Procs :
          (/\ p # q
           /\ mint[p].pc = "counted"
           /\ mint'[p] # mint[p]
           /\ mint[p].fault = "none"
           /\ mint[q].pc = "done"
           /\ mint[q].fault = "none"
           /\ mint[q].url # mint[p].url
           /\ mint[q].dbSize = mint[p].dbSize
           /\ mint[q].body = urlReceipt(mint[q].url, ShortURLFor(mint[q].dbSize))
           /\ \A i \in DOMAIN urls : urls[i].original_url # mint[p].url)
          => (/\ mint'[p].pc = "done"
              /\ mint'[p].body = urlReceipt(mint[p].url, mint[q].body.short_url)
              /\ Collision(urls', mint[q].body.short_url))]_vars

SameCountMintsCollideWitness ==
    \E p, q \in Procs :
        /\ p # q
        /\ mint[p].pc = "done"
        /\ mint[q].pc = "done"
        /\ mint[p].url # mint[q].url
        /\ mint[p].dbSize = mint[q].dbSize
        /\ mint[p].body = urlReceipt(mint[p].url, ShortURLFor(mint[p].dbSize))
        /\ mint[q].body = urlReceipt(mint[q].url, ShortURLFor(mint[p].dbSize))
        /\ Collision(urls, ShortURLFor(mint[p].dbSize))

\* C16: when two mint calls for the same original URL have both returned,
\* the store answering every call, exactly one record for that URL exists
\* and both calls have returned that record's stored short_url, whatever
\* code each computed from the count it read.
SameURLMintsAgree ==
    \A p, q \in Procs :
        (/\ p # q
         /\ mint[p].pc = "done"
         /\ mint[q].pc = "done"
         /\ mint[p].url = mint[q].url
         /\ mint[p].fault = "none"
         /\ mint[q].fault = "none")
        => LET stored == {i \in DOMAIN urls :
                             urls[i].original_url = mint[p].url}
           IN /\ Cardinality(stored) = 1
              /\ \A k \in stored :
                    /\ mint[p].body = urlReceipt(mint[p].url, urls[k].short_url)
                    /\ mint[q].body = urlReceipt(mint[q].url, urls[k].short_url)

SameURLMintsAgreeWitness ==
    \E p, q \in Procs, i \in DOMAIN urls :
        /\ p # q
        /\ mint[p].pc = "done"
        /\ mint[q].pc = "done"
        /\ mint[p].url = mint[q].url
        /\ mint[p].fault = "none"
        /\ mint[q].fault = "none"
        /\ mint[p].path = "inserted"
        /\ mint[q].path = "duplicate"
        /\ urls[i].original_url = mint[q].url
        /\ mint[q].dbSize < i
        /\ ShortURLFor(mint[q].dbSize) # urls[i].short_url
        /\ mint[q].body.short_url = urls[i].short_url

(***************************************************************************)
(* exercisedao.go: conversions                                             *)
(***************************************************************************)
HexBase == 16

HexLen == 24

DecimalBase == 10

RECURSIVE PadLeft(_, _)
PadLeft(s, n) == IF Len(s) >= n THEN s ELSE PadLeft("0" \o s, n)

\* ObjectID.Hex(): 24 hexadecimal characters; ObjectIDs are numbered 1, 2, ...
Hex(oid) == PadLeft(FormatInt(oid, HexBase), HexLen)

\* ObjectID.String(), which fmt.Sprintf("%v", id) prints.
ObjectIDString(oid) == "ObjectID(\"" \o Hex(oid) \o "\")"

\* primitive.IsValidObjectID / ObjectIDFromHex succeed on 24 hex characters.
IsValidObjectID(s) == Len(s) = HexLen /\ AllDigits(s, HexBase)

ObjectIDFromHex(s) == DigitsValue(s, HexBase)

\* The digits of a strconv.Atoi argument: the text after an optional sign.
AtoiDigits(s) ==
    IF Len(s) > 0 /\ Char(s, 1) \in {"+", "-"} THEN SubSeq(s, 2, Len(s)) ELSE s

\* An Atoi whose error is ignored: every string converts.
AtoiAcceptsAll(s) == TRUE

\* strconv.Atoi: err == nil.
AtoiOK(s) == AllDigits(AtoiDigits(s), DecimalBase)

\* strconv.Atoi: the value (0 with an error).
Atoi(s) ==
    IF ~AllDigits(AtoiDigits(s), DecimalBase) THEN 0
    ELSE IF Char(s, 1) = "-" THEN 0 - DigitsValue(AtoiDigits(s), DecimalBase)
    ELSE DigitsValue(AtoiDigits(s), DecimalBase)

IsLeap(y) == (y % 4 = 0 /\ y % 100 # 0) \/ y % 400 = 0

DaysIn(y, m) ==
    IF m = 2 THEN (IF IsLeap(y) THEN 29 ELSE 28)
    ELSE IF m \in {4, 6, 9, 11} THEN 30 ELSE 31

\* time.Parse("2006-01-02", s): err == nil.
DateOK(s) ==
    /\ Len(s) = 10
    /\ Char(s, 5) = "-"
    /\ Char(s, 8) = "-"
    /\ AllDigits(SubSeq(s, 1, 4), DecimalBase)
    /\ AllDigits(SubSeq(s, 6, 7), DecimalBase)
    /\ AllDigits(SubSeq(s, 9, 10), DecimalBase)
    /\ LET y == DigitsValue(SubSeq(s, 1, 4), DecimalBase)
           m == DigitsValue(SubSeq(s, 6, 7), DecimalBase)
           d == DigitsValue(SubSeq(s, 9, 10), DecimalBase)
       IN m \in 1..12 /\ d \in 1..DaysIn(y, m)

\* A time.Time: <<year, month, day, time of day>>.  The zero Time on an error.
ZeroTime == <<1, 1, 1, 0>>

\* time.Parse("2006-01-02", s): midnight of the day.
ParseDate(s) ==
    IF DateOK(s)
    THEN <<DigitsValue(SubSeq(s, 1, 4), DecimalBase),
           DigitsValue(SubSeq(s, 6, 7), DecimalBase),
           DigitsValue(SubSeq(s, 9, 10), DecimalBase), 0>>
    ELSE ZeroTime

\* t1 <= t2 on time.Time values ($lte, $gte and $sort compare dates so).
RECURSIVE TimeLEFrom(_, _, _)
TimeLEFrom(t1, t2, k) ==
    IF k > Len(t1) THEN TRUE
    ELSE IF t1[k] # t2[k] THEN t1[k] < t2[k]
    ELSE TimeLEFrom(t1, t2, k + 1)

TimeLE(t1, t2) == TimeLEFrom(t1, t2, 1)

\* time.Now(): the instants at which a call may run.
Clock == {<<2023, 1, 15, 1>>}

(***************************************************************************)
(* exercisedao.go: users and their logs                                    *)
(***************************************************************************)
ExerciseRecord(desc, duration, date) ==
    [description |-> desc, duration |-> duration, date |-> date]

\* json.Marshal(ExerciseUser{ID, Username}).
ExerciseUser(id, uname) == [_id |-> id, username |-> uname]

\* Decode of a stored document into ExerciseUserRecord: the struct has the
\* fields ID, Username and Log, and no other field of the document is kept.
DecodeExerciseUserRecord(doc) ==
    [ID |-> Hex(doc._id), Username |-> doc.username,
     Log |-> IF "log" \in DOMAIN doc THEN doc.log ELSE <<>>]

\* json.Marshal(ExerciseUserRecord): "log" carries omitempty.
MarshalExerciseUserRecord(r) ==
    IF Len(r.Log) = 0 THEN [_id |-> r.ID, username |-> r.Username]
    ELSE [_id |-> r.ID, username |-> r.Username, log |-> r.Log]

ExerciseAddedReceipt(id, uname, desc, duration, date) ==
    [_id |-> id, username |-> uname, description |-> desc,
     duration |-> duration, date |-> date]

\* A payload handed back as JSON, the nil byte slice, and a handler that
\* panicked before it returned.
Json(op, body) == [op |-> op, kind |-> "json", body |-> body]

NilBytes(op) == [op |-> op, kind |-> "empty", body |-> <<>>]

Panic(op) == [op |-> op, kind |-> "panic", body |-> <<>>]

\* The number of log entries stored in the collection.
RECURSIVE TotalEntries(_)
TotalEntries(coll) ==
    IF coll = <<>> THEN 0
    ELSE (IF "log" \in DOMAIN coll[1] THEN Len(coll[1].log) ELSE 0)
         + TotalEntries(Tail(coll))

Usernames == {"al", "bo"}

CreateFaults == {"none", "insert", "insert+find"}

\* Lines 73-106.  The collection has a unique index on username.
createExerciseUser(uname, fault) ==
    LET op == "createExerciseUser"
        i  == FindIndex(users, "username", uname)
        c  == [op |-> op, uname |-> uname, fault |-> fault, path |-> ""]
    IN IF fault # "none" \/ i # 0
       THEN \* InsertOne failed: look the user up by name
            /\ IF fault = "insert+find" \/ i = 0
               THEN /\ ret' = Json(op, ErrorMessage(
                                "unable to create or find user with username" \o uname))
                    /\ call' = [c EXCEPT !.path = "not created"]
               ELSE /\ ret' = Json(op, ExerciseUser(Hex(users[i]._id),
                                                    users[i].username))
                    /\ call' = [c EXCEPT !.path = "found"]
            /\ UNCHANGED <<users, nextOid, firstUser>>
       ELSE /\ users' = Append(users, [_id |-> nextOid, username |-> uname])
            /\ nextOid' = nextOid + 1
            /\ ret' = Json(op, ExerciseUser(ObjectIDString(nextOid), uname))
            /\ call' = [c EXCEPT !.path = "inserted"]
            /\ firstUser' = [n \in DOMAIN firstUser \cup {uname} |->
                               IF n = uname THEN ExerciseUser(ObjectIDString(nextOid), uname)
                               ELSE firstUser[n]]

CreateUser ==
    /\ call = NoCall
    /\ \E uname \in Usernames, fault \in CreateFaults : createExerciseUser(uname, fault)
    /\ UNCHANGED <<urls, firstCode, resolved, mint>>

\* FindOneAndUpdate {_id: id} {$push: {log: e}}: the collection afterwards.
PushLog(coll, i, e) ==
    [coll EXCEPT ![i] =
        IF "log" \in DOMAIN @
        THEN [@ EXCEPT !.log = Append(@, e)]
        ELSE [_id |-> @._id, username |-> @.username, log |-> <<e>>]]

AddFaults == {"none", "update"}

\* Lines 143-212.
addExerciseToUser(userID, desc, duration, date, now, fault) ==
    LET op == "addExerciseToUser"
        c  == [op |-> op, id |-> userID, desc |-> desc, duration |-> duration,
               date |-> date, fault |-> fault, path |-> ""]
    IN IF ~IsValidObjectID(userID)
       THEN /\ ret' = Json(op, ErrorMessage("invalid id"))
            /\ call' = [c EXCEPT !.path = "invalid id"]
            /\ UNCHANGED users
       ELSE IF ~AtoiOK(duration)
       THEN /\ ret' = Json(op, ErrorMessage("invalid duration"))
            /\ call' = [c EXCEPT !.path = "invalid duration"]
            /\ UNCHANGED users
       ELSE IF Len(date) > 0 /\ ~DateOK(date)
       THEN /\ ret' = Json(op, ErrorMessage("invalid date"))
            /\ call' = [c EXCEPT !.path = "invalid date"]
            /\ UNCHANGED users
       ELSE LET dateObject  == IF Len(date) > 0 THEN ParseDate(date) ELSE now
                newExercise == ExerciseRecord(desc, Atoi(duration), dateObject)
                i == FindIndex(users, "_id", ObjectIDFromHex(userID))
            IN IF fault = "update" \/ i = 0
               THEN /\ ret' = Json(op, ErrorMessage(
                                "unable to add exercise to" \o userID))
                    /\ call' = [c EXCEPT !.path = "not added"]
                    /\ UNCHANGED users
               ELSE /\ TotalEntries(users) < MaxLog
                    /\ users' = PushLog(users, i, newExercise)
                    /\ ret' = Json(op, ExerciseAddedReceipt(
                                Hex(users[i]._id), users[i].username,
                                desc, Atoi(duration), dateObject))
                    /\ call' = [c EXCEPT !.path = "added"]

UserIDs == {Hex(1), Hex(2), Hex(10), "12"}

Descriptions == {"run", "swim"}

Durations == {"30", "3o"}

AddDates == {"2023-01-01", "", "2023-02-30"}

AddExercise ==
    /\ call = NoCall
    /\ \E userID \in UserIDs, desc \in Descriptions, duration \in Durations,
          date \in AddDates, now \in Clock, fault \in AddFaults :
          addExerciseToUser(userID, desc, duration, date, now, fault)
    /\ UNCHANGED <<urls, nextOid, firstCode, firstUser, resolved, mint>>

(***************************************************************************)
(* exercisedao.go: the log query                                           *)
(***************************************************************************)
\* Lines 236-243: {$match: {$and: [{_id: id}, {log: {$exists: true}}]}}.
matchStage(userIDObject) == [op |-> "$match user", id |-> userIDObject]

\* Lines 247-251: {$addFields: {count: {$size: "$log"}}}.
addFieldsStage == [op |-> "$addFields count"]

unwindStage == [op |-> "$unwind"]

sortStage == [op |-> "$sort"]

regroupStage == [op |-> "$group"]

\* Lines 284-311: the $match on log.date, with the sides that were valid.
matchDate(fromValid, fromDateObj, toValid, toDateObj) ==
    [op |-> "$match date", gte |-> fromValid, from |-> fromDateObj,
     lte |-> toValid, to |-> toDateObj]

limitStage(limitVal) == [op |-> "$limit", n |-> limitVal]

\* A pipeline that cuts the rows before it filters them by date.
BuildPipeLimitFirst(userIDObject, fromDate, toDate, limit) ==
    LET fromValid == Len(fromDate) > 0 /\ DateOK(fromDate)
        toValid   == Len(toDate) > 0 /\ DateOK(toDate)
        limitValid == Len(limit) > 0 /\ AtoiOK(limit)
    IN <<matchStage(userIDObject), addFieldsStage>>
       \o (IF fromValid \/ toValid \/ limitValid
           THEN <<unwindStage, sortStage>>
                \o (IF limitValid THEN <<limitStage(Atoi(limit))>> ELSE <<>>)
                \o (IF fromValid \/ toValid
                    THEN <<matchDate(fromValid, ParseDate(fromDate),
                                     toValid, ParseDate(toDate))>>
                    ELSE <<>>)
                \o <<regroupStage>>
           ELSE <<>>)

\* A pipeline that flattens and sorts the log as soon as a filter has any
\* value, parsed or not.
BuildPipeSortOnAnyValue(userIDObject, fromDate, toDate, limit) ==
    LET fromValid == Len(fromDate) > 0 /\ DateOK(fromDate)
        toValid   == Len(toDate) > 0 /\ DateOK(toDate)
        limitValid == Len(limit) > 0 /\ AtoiOK(limit)
    IN <<matchStage(userIDObject), addFieldsStage>>
       \o (IF Len(fromDate) > 0 \/ Len(toDate) > 0 \/ Len(limit) > 0
           THEN <<unwindStage, sortStage>>
                \o (IF fromValid \/ toValid
                    THEN <<matchDate(fromValid, ParseDate(fromDate),
                                     toValid, ParseDate(toDate))>>
                    ELSE <<>>)
                \o (IF limitValid THEN <<limitStage(Atoi(limit))>> ELSE <<>>)
                \o <<regroupStage>>
           ELSE <<>>)

\* Lines 232-321: the pipeline getExerciseLogsFromUser builds.
BuildPipe(userIDObject, fromDate, toDate, limit) ==
    LET fromValid == Len(fromDate) > 0 /\ DateOK(fromDate)
        toValid   == Len(toDate) > 0 /\ DateOK(toDate)
        limitValid == Len(limit) > 0 /\ AtoiOK(limit)
    IN <<matchStage(userIDObject), addFieldsStage>>
       \o (IF fromValid \/ toValid \/ limitValid
           THEN <<unwindStage, sortStage>>
                \o (IF fromValid \/ toValid
                    THEN <<matchDate(fromValid, ParseDate(fromDate),
                                     toValid, ParseDate(toDate))>>
                    ELSE <<>>)
                \o (IF limitValid THEN <<limitStage(Atoi(limit))>> ELSE <<>>)
                \o <<regroupStage>>
           ELSE <<>>)

\* The orders in which $sort {log.date: 1} may hand on the rows: every
\* arrangement with the dates ascending (rows of equal date in any order).
SortedByDate(rows) ==
    IF rows = <<>> THEN {<<>>}
    ELSE LET n == Len(rows)
             arranged == {[i \in 1..n |-> rows[p[i]]] : p \in Permutations(1..n)}
         IN {r \in arranged :
                \A i \in 1..(n - 1) : TimeLE(r[i].log.date, r[i + 1].log.date)}

\* $unwind "$log": one row per entry, in log order; none for an empty log.
RECURSIVE Unwind(_)
Unwind(rows) ==
    IF rows = <<>> THEN <<>>
    ELSE [k \in 1..Len(rows[1].log) |-> [rows[1] EXCEPT !.log = rows[1].log[k]]]
         \o Unwind(Tail(rows))

\* $group by _id: $first of username and count, $push of log.
RECURSIVE Regroup(_)
Regroup(rows) ==
    IF rows = <<>> THEN <<>>
    ELSE LET id   == rows[1]._id
             mine == SelectSeq(rows, LAMBDA r : r._id = id)
             rest == SelectSeq(rows, LAMBDA r : r._id # id)
         IN <<[_id |-> id, username |-> mine[1].username,
               count |-> mine[1].count,
               log |-> [k \in 1..Len(mine) |-> mine[k].log]]>>
            \o Regroup(rest)

\* One stage applied to one sequence of rows: the sequences it may produce.
RunStage(stage, rows) ==
    IF stage.op = "$match user"
    THEN {SelectSeq(rows, LAMBDA d : d._id = stage.id /\ "log" \in DOMAIN d)}
    ELSE IF stage.op = "$addFields count"
    THEN {[k \in 1..Len(rows) |->
             [f \in DOMAIN rows[k] \cup {"count"} |->
                 IF f = "count" THEN Len(rows[k].log) ELSE rows[k][f]]]}
    ELSE IF stage.op = "$unwind" THEN {Unwind(rows)}
    ELSE IF stage.op = "$sort" THEN SortedByDate(rows)
    ELSE IF stage.op = "$match date"
    THEN {SelectSeq(rows, LAMBDA r :
             /\ stage.gte => TimeLE(stage.from, r.log.date)
             /\ stage.lte => TimeLE(r.log.date, stage.to))}
    ELSE IF stage.op = "$limit"
    THEN {SubSeq(rows, 1, IF stage.n < Len(rows) THEN stage.n ELSE Len(rows))}
    ELSE {Regroup(rows)}

\* The stages from the k-th on, applied to each of the candidates.
RECURSIVE RunPipe(_, _, _)
RunPipe(pipe, k, candidates) ==
    IF k > Len(pipe) THEN candidates
    ELSE RunPipe(pipe, k + 1,
                 UNION {RunStage(pipe[k], rows) : rows \in candidates})

\* The server refuses a pipeline whose $limit is not positive.
PipeRejected(pipe) ==
    \E k \in DOMAIN pipe : pipe[k].op = "$limit" /\ pipe[k].n <= 0

\* Collection.Aggregate: the document sequences the cursor may deliver.
Aggregate(coll, pipe) == RunPipe(pipe, 1, {coll})

QueryFaults == {"none", "aggregate", "cursor", "cursor+find"}

\* Lines 348-362: the lookup by _id alone, entered when cursor.Err() is set.
FallbackLookup(op, coll, userIDObject, fault) ==
    LET i == FindIndex(coll, "_id", userIDObject)
    IN IF fault = "cursor+find" \/ i = 0
       THEN Json(op, ErrorMessage("invalid user"))
       ELSE Json(op, MarshalExerciseUserRecord(DecodeExerciseUserRecord(coll[i])))

\* Lines 216-365: the payloads one call may return, each with the path that
\* produces it.  There are several only when the store may order entries of
\* equal date either way.
QueryOutcomes(coll, userID, fromDate, toDate, limit, fault) ==
    LET op == "getExerciseLogsFromUser"
    IN IF ~IsValidObjectID(userID)
       THEN {[ret |-> Json(op, ErrorMessage("invalid id")), path |-> "invalid id"]}
       ELSE LET userIDObject == ObjectIDFromHex(userID)
                pipe == BuildPipe(userIDObject, fromDate, toDate, limit)
            IN IF fault = "aggregate" \/ PipeRejected(pipe)
               THEN \* Aggregate returned an error and a nil cursor, which
                    \* line 333 dereferences
                    {[ret |-> Panic(op), path |-> "aggregate failed"]}
               ELSE IF fault \in {"cursor", "cursor+find"}
               THEN \* cursor.Next failed: cursor.Err() is set
                    {[ret |-> FallbackLookup(op, coll, userIDObject, fault),
                      path |-> "fallback"]}
               ELSE {IF docs = <<>>
                     THEN \* cursor.Next is false and cursor.Err() is nil
                          [ret |-> NilBytes(op), path |-> "no document"]
                     ELSE [ret |-> Json(op, MarshalExerciseUserRecord(
                                             DecodeExerciseUserRecord(docs[1]))),
                           path |-> "document"]
                     : docs \in Aggregate(coll, pipe)}

\* Lines 216-365.  Nothing is written to the store.
getExerciseLogsFromUser(userID, fromDate, toDate, limit, fault) ==
    \E o \in QueryOutcomes(users, userID, fromDate, toDate, limit, fault) :
        /\ ret' = o.ret
        /\ call' = [op |-> "getExerciseLogsFromUser", id |-> userID,
                    from |-> fromDate, to |-> toDate, limit |-> limit,
                    fault |-> fault, path |-> o.path]

QueryIDs == {Hex(1), Hex(10), "12"}

FromDates == {"", "2023-01-10", "2023-1-10"}

ToDates == {"", "2023-01-15", "15/01/2023"}

Limits == {"", "1", "0", "one"}

QueryLogs ==
    /\ call = NoCall
    /\ \E userID \in QueryIDs, fromDate \in FromDates, toDate \in ToDates,
          limit \in Limits, fault \in QueryFaults :
          getExerciseLogsFromUser(userID, fromDate, toDate, limit, fault)
    /\ UNCHANGED <<urls, users, nextOid, firstCode, firstUser, resolved, mint>>

InitExercise ==
    /\ urls = <<>>
    /\ firstCode = [u \in AllURLs |-> NoCode]
    /\ users = <<>>
    /\ nextOid = 1
    /\ firstUser = [n \in {} |-> NoReturn]
    /\ resolved = NoneResolved
    /\ mint = [p \in Procs |-> IdleMint]
    /\ call = NoCall
    /\ ret = NoReturn

NextExercise == CreateUser \/ AddExercise \/ QueryLogs \/ Respond

\* The exercise tracker, its calls running one at a time.
SpecExercise == InitExercise /\ [][NextExercise]_vars

(***************************************************************************)
(* Claims about the exercise tracker, checked under SpecExercise.          *)
(***************************************************************************)
QueryOp == "getExerciseLogsFromUser"

\* The stored document the last call's id names, 0 if there is none.
CalledUser == FindIndex(users, "_id", ObjectIDFromHex(call.id))

StoredLog(i) == IF "log" \in DOMAIN users[i] THEN users[i].log ELSE <<>>

ReturnedLog(body) == IF "log" \in DOMAIN body THEN body.log ELSE <<>>

FromValid(c) == Len(c.from) > 0 /\ DateOK(c.from)

ToValid(c) == Len(c.to) > 0 /\ DateOK(c.to)

LimitValid(c) ==
    Len(c.limit) > 0 /\ AllDigits(AtoiDigits(c.limit), DecimalBase)

AnyFilterValid(c) == FromValid(c) \/ ToValid(c) \/ LimitValid(c)

\* What the contract says a filtered query returns: the entries in some
\* date-ascending order, those in the date range, the first `limit` of them.
ClaimedLogs(log, c) ==
    LET n == Len(log)
        arranged == IF n = 0 THEN {<<>>}
                    ELSE {[i \in 1..n |-> log[p[i]]] : p \in Permutations(1..n)}
        ascending == {a \in arranged :
                         \A i \in 1..(n - 1) : TimeLE(a[i].date, a[i + 1].date)}
        inRange(a) == SelectSeq(a, LAMBDA e :
                         /\ FromValid(c) => TimeLE(ParseDate(c.from), e.date)
                         /\ ToValid(c) => TimeLE(e.date, ParseDate(c.to)))
        keep(a) == IF ~LimitValid(c) \/ Atoi(c.limit) >= Len(a) THEN Len(a)
                   ELSE IF Atoi(c.limit) < 0 THEN 0 ELSE Atoi(c.limit)
    IN {SubSeq(inRange(a), 1, keep(inRange(a))) : a \in ascending}

\* A query of an existing user with stored entries and at least one valid
\* filter, answered by a store without faults.
FilteredQuery ==
    /\ call.op = QueryOp
    /\ call.fault = "none"
    /\ IsValidObjectID(call.id)
    /\ CalledUser # 0
    /\ StoredLog(CalledUser) # <<>>
    /\ AnyFilterValid(call)

\* The log entries a return value hands to the caller: those of the record,
\* none when no record comes back.
DeliveredLog(r) == IF r.kind = "json" THEN ReturnedLog(r.body) ELSE <<>>

\* C5: with at least one valid filter, the log entries queryLogs returns are
\* exactly the user's entries sorted by date ascending, restricted to the
\* date range, then cut to the first `limit` entries: the limit comes after
\* the sort and the date filter.  (Entries of equal date come in either
\* order; the record that carries the entries is the subject of C7.)
QueryLogIsSortedFilteredCut ==
    FilteredQuery =>
        /\ DeliveredLog(ret) \in ClaimedLogs(StoredLog(CalledUser), call)
        /\ ret.kind = "json" =>
              /\ "error" \notin DOMAIN ret.body
              /\ ret.body._id = call.id
              /\ ReturnedLog(ret.body) # <<>>

\* A query with from and limit whose date filter drops the earliest entry
\* and whose limit then keeps the next one.
QueryLogIsSortedFilteredCutWitness ==
    /\ FilteredQuery
    /\ FromValid(call)
    /\ LimitValid(call)
    /\ call.path = "document"
    /\ Len(StoredLog(CalledUser)) = 2
    /\ ~TimeLE(StoredLog(CalledUser)[1].date, StoredLog(CalledUser)[2].date)
    /\ ReturnedLog(ret.body) = <<StoredLog(CalledUser)[1]>>

\* C6: the record a filtered query returns carries a count equal to the
\* number of entries stored in the user's log.
QueryReportsCount ==
    (FilteredQuery /\ ret.kind = "json" /\ "error" \notin DOMAIN ret.body) =>
        /\ "count" \in DOMAIN ret.body
        /\ ret.body.count = Len(StoredLog(CalledUser))

\* C7: when the pipeline yields no document for an existing user, queryLogs
\* returns that user's id and username (and, for a user without entries, no
\* log), neither an error nor an empty response.
QueryEmptyLogReturnsUser ==
    (/\ call.op = QueryOp
     /\ call.path = "no document"
     /\ CalledUser # 0)
    => (/\ ret.kind = "json"
        /\ "error" \notin DOMAIN ret.body
        /\ ret.body._id = call.id
        /\ ret.body.username = users[CalledUser].username
        /\ StoredLog(CalledUser) = <<>> => "log" \notin DOMAIN ret.body)

\* C8: queryLogs with a well-formed id that matches no user returns the
\* user-not-found error payload.
QueryUnknownUserIsError ==
    (/\ call.op = QueryOp
     /\ call.path = "no document"
     /\ IsValidObjectID(call.id)
     /\ CalledUser = 0)
    => ret = Json(QueryOp, ErrorMessage("invalid user"))

\* C9: a createUser of a name that was created before returns the record the
\* first call returned, and one document carries that name.
CreateUserIsIdempotent ==
    (/\ call.op = "createExerciseUser"
     /\ call.fault = "none"
     /\ call.uname \in DOMAIN firstUser)
    => (/\ ret.body = firstUser[call.uname]
        /\ Cardinality({i \in DOMAIN users :
                          users[i].username = call.uname}) = 1)

\* A duration string that strconv.Atoi does not accept.
NotAnInteger(s) == ~AllDigits(AtoiDigits(s), DecimalBase)

\* C10 as stated: appendExercise with a duration that is not an integer
\* returns the invalid-duration error and leaves the collection unchanged.
BadDurationIsInvalidDuration ==
    [][(/\ call'.op = "addExerciseToUser"
        /\ NotAnInteger(call'.duration))
       => (/\ ret' = Json("addExerciseToUser", ErrorMessage("invalid duration"))
           /\ users' = users)]_vars

\* C10 as amended: with a well-formed id, a duration that is not an integer
\* returns the invalid-duration error; with a malformed id the id check comes
\* first and the error is invalid-id.  Either way the collection is unchanged,
\* whether or not the user exists and whether or not the store would fail.
BadDurationIsRejected ==
    [][(/\ call'.op = "addExerciseToUser"
        /\ NotAnInteger(call'.duration))
       => (/\ ret' = Json("addExerciseToUser",
                          IF IsValidObjectID(call'.id)
                          THEN ErrorMessage("invalid duration")
                          ELSE ErrorMessage("invalid id"))
           /\ users' = users)]_vars

BadDurationIsRejectedWitness ==
    /\ call.op = "addExerciseToUser"
    /\ NotAnInteger(call.duration)
    /\ ret.body = ErrorMessage("invalid duration")
    /\ call.fault = "none"
    /\ CalledUser # 0
    /\ StoredLog(CalledUser) # <<>>
    /\ Len(users) > 1

\* The id of the call is well formed and no stored user carries it.
IdMatchesNoUser(c, coll) ==
    /\ IsValidObjectID(c.id)
    /\ \A i \in DOMAIN coll : coll[i]._id # ObjectIDFromHex(c.id)

\* C14: addExerciseToUser with a well-formed id that matches no user returns
\* an error payload, creates no user document and leaves every existing
\* user's log unchanged.
AddToUnknownUserIsError ==
    [][(/\ call'.op = "addExerciseToUser"
        /\ IdMatchesNoUser(call', users))
       => (/\ DOMAIN ret'.body = {"error"}
           /\ Len(users') = Len(users)
           /\ \A i \in DOMAIN users : users'[i] = users[i])]_vars

AddToUnknownUserIsErrorWitness ==
    /\ call.op = "addExerciseToUser"
    /\ IdMatchesNoUser(call, users)
    /\ call.fault = "none"
    /\ AtoiOK(call.duration)
    /\ call.date = "2023-01-01"
    /\ ret.body = ErrorMessage("unable to add exercise to" \o call.id)
    /\ Len(users) > 1
    /\ \E i \in DOMAIN users : StoredLog(i) # <<>>

\* C17: queryLogs returns a payload to its caller for every outcome of the
\* store's aggregate call: it never ends by reading from a cursor that the
\* failed call did not produce.
QueryAlwaysReturnsPayload ==
    call.op = QueryOp => ret.kind # "panic"

\* A non-empty value that time.Parse("2006-01-02", .) refuses.
MalformedDate(s) == Len(s) > 0 /\ ~DateOK(s)

\* A non-empty value that strconv.Atoi refuses.
MalformedLimit(s) == Len(s) > 0 /\ NotAnInteger(s)

\* The payloads the running query may return when it is given these filters.
ResultsWith(fromDate, toDate, limit) ==
    {o.ret : o \in QueryOutcomes(users, call.id, fromDate, toDate, limit,
                                 call.fault)}

\* C12: for each of from, to and limit on its own, a query whose value fails
\* to parse returns what the same query returns with that parameter absent;
\* the malformed value causes no error payload.
MalformedFilterIsAbsent ==
    call.op = QueryOp =>
        /\ MalformedDate(call.from) =>
              /\ ret \in ResultsWith("", call.to, call.limit)
              /\ ResultsWith(call.from, call.to, call.limit)
                    = ResultsWith("", call.to, call.limit)
        /\ MalformedDate(call.to) =>
              /\ ret \in ResultsWith(call.from, "", call.limit)
              /\ ResultsWith(call.from, call.to, call.limit)
                    = ResultsWith(call.from, "", call.limit)
        /\ MalformedLimit(call.limit) =>
              /\ ret \in ResultsWith(call.from, call.to, "")
              /\ ResultsWith(call.from, call.to, call.limit)
                    = ResultsWith(call.from, call.to, "")

MalformedFilterIsAbsentWitness ==
    /\ call.op = QueryOp
    /\ call.fault = "none"
    /\ MalformedDate(call.from)
    /\ MalformedDate(call.to)
    /\ MalformedLimit(call.limit)
    /\ CalledUser # 0
    /\ Len(StoredLog(CalledUser)) = 2
    /\ ~TimeLE(StoredLog(CalledUser)[1].date, StoredLog(CalledUser)[2].date)
    /\ ret.kind = "json"
    /\ ReturnedLog(ret.body) = StoredLog(CalledUser)

====
